---- MODULE Spec2Model ----
(***************************************************************************)
(* The zod template of postgres-meta (src/server/templates/zod.ts):        *)
(* `apply` compiles an introspected metadata snapshot into one document.   *)
(*                                                                         *)
(* Representation.  JavaScript strings are TLA+ strings.  A piece of        *)
(* emitted text is kept as the sequence of the strings the code            *)
(* concatenates (its text is their concatenation), so `'.' + arr.join('.')`*)
(* is <<".", m1, ".", m2>>.  `null`/`undefined` scalars are the value Null.*)
(***************************************************************************)
EXTENDS Integers, Sequences, FiniteSets, TLC

VARIABLES schemas, tables, views, materializedViews, columns, functions,
          types, arrayTypes, calls

vars == <<schemas, tables, views, materializedViews, columns, functions,
          types, arrayTypes, calls>>

\* Bounds of the model.
MaxCols == 2
MaxFns == 2
MaxRuns == 2

Null == "<null>"

(***************************************************************************)
(* String helpers.                                                         *)
(***************************************************************************)
startsWith(s, prefix) == Len(s) >= Len(prefix) /\ SubSeq(s, 1, Len(prefix)) = prefix

substring(s, from) == SubSeq(s, from + 1, Len(s))

RECURSIVE concat(_)
concat(ss) == IF ss = <<>> THEN "" ELSE Head(ss) \o concat(Tail(ss))

\* arr.join(sep) as the sequence of its pieces.
RECURSIVE join(_, _)
join(arr, sep) ==
  IF arr = <<>> THEN <<>>
  ELSE IF Len(arr) = 1 THEN <<arr[1]>>
  ELSE <<arr[1], sep>> \o join(Tail(arr), sep)

RECURSIVE flatten(_)
flatten(seqs) == IF seqs = <<>> THEN <<>> ELSE Head(seqs) \o flatten(Tail(seqs))

(***************************************************************************)
(* String.prototype.localeCompare.  The ICU collation is given by its      *)
(* graph on the names of the model: Collation lists them in ascending      *)
(* order; the names of one set compare equal.  "caf\\u00e9" and             *)
(* "cafe\\u0301" are the JavaScript spellings of the precomposed and the    *)
(* decomposed form of one name: canonically equivalent strings compare     *)
(* equal although they are different strings.                              *)
(***************************************************************************)
Collation ==
  << {"accounts"}, {"active_users"}, {"area"}, {"Bio"},
     {"caf\\u00e9", "cafe\\u0301"}, {"color"}, {"constructor"}, {"email"},
     {"f"}, {"F"}, {"full_name"}, {"g"}, {"geo"}, {"ghost"}, {"id"},
     {"log"}, {"mood"}, {"name"}, {"tags"}, {"users"}, {"Zip"} >>

CollationKey(s) == CHOOSE i \in DOMAIN Collation : s \in Collation[i]

localeCompare(a, b) ==
  IF CollationKey(a) < CollationKey(b) THEN -1
  ELSE IF CollationKey(a) > CollationKey(b) THEN 1 ELSE 0

\* Array.prototype.sort with the comparator ({name: a}, {name: b}) =>
\* a.localeCompare(b): a stable sort.
RECURSIVE sortByName(_)
sortByName(arr) ==
  IF arr = <<>> THEN <<>>
  ELSE LET n == Len(arr)
           front == sortByName(SubSeq(arr, 1, n - 1))
           x == arr[n]
           k == Cardinality({i \in DOMAIN front : localeCompare(front[i].name, x.name) <= 0})
       IN SubSeq(front, 1, k) \o <<x>> \o SubSeq(front, k + 1, n - 1)

(***************************************************************************)
(* _common: the per-schema filters.  filter() makes a new array, which is  *)
(* then sorted.                                                            *)
(***************************************************************************)
filterFromSchema(items, schemaName) ==
  sortByName(SelectSeq(items, LAMBDA item : item.schema = schemaName))

filterSchemaFunctions(fns, schemaName) ==
  sortByName(SelectSeq(fns, LAMBDA func :
    /\ func.schema = schemaName
    /\ LET inArgs == SelectSeq(func.args, LAMBDA a : a.mode \in {"in", "inout", "variadic"})
       IN Len(inArgs) = 1 \/ ~(\E i \in DOMAIN inArgs : inArgs[i].name = "")))

filterSchemaEnums(tys, schemaName) ==
  sortByName(SelectSeq(tys, LAMBDA type : type.schema = schemaName /\ Len(type.enums) > 0))

(***************************************************************************)
(* The result of evaluating an expression: the value, the console.debug    *)
(* messages emitted on the way and, when it threw, the error.              *)
(***************************************************************************)
Ok(out, log) == [err |-> "", out |-> out, log |-> log]

Throw(e, log) == [err |-> e, out |-> <<>>, log |-> log]

\* The index of the first result that threw; 0 when none did.
RECURSIVE firstThrow(_)
firstThrow(rs) ==
  IF rs = <<>> THEN 0
  ELSE IF Head(rs).err # "" THEN 1
  ELSE LET k == firstThrow(Tail(rs)) IN IF k = 0 THEN 0 ELSE k + 1

\* A value computed from a result that did not throw.
then(r, f(_)) == IF r.err # "" THEN r ELSE Ok(f(r.out), r.log)

\* The results of evaluating a list left to right: evaluation stops at the
\* first element that throws.
inOrder(rs) ==
  LET k == firstThrow(rs)
      done == IF k = 0 THEN rs ELSE SubSeq(rs, 1, k)
      log == flatten([i \in DOMAIN done |-> done[i].log])
  IN IF k = 0 THEN Ok([i \in DOMAIN rs |-> rs[i].out], log)
     ELSE Throw(rs[k].err, log)

(***************************************************************************)
(* basicZodType                                                            *)
(***************************************************************************)
BooleanFormats == {"bool", "boolean"}

NumberFormats ==
  {"int2", "int4", "int8", "float4", "float8", "numeric", "integer", "bigint", "oid"}

JsonFormats == {"json", "jsonb"}

StringFormats ==
  {"bytea", "bpchar", "varchar", "text", "citext", "uuid", "vector", "inet",
   "cidr", "macaddr", "macaddr8", "character varying"}

DateFormats ==
  {"date", "time", "timetz", "timestamp", "timestamptz", "timestamp with time zone"}

RECURSIVE basicZodType(_, _, _)
basicZodType(pgType, enumFallback, fallback) ==
  IF startsWith(pgType, "_")
  THEN LET subtype == basicZodType(substring(pgType, 1), "z.unknown()", "z.unknown()")
       IN Ok(IF subtype.out # "" THEN "z.array(" \o subtype.out \o ")" ELSE fallback,
             subtype.log)
  ELSE IF pgType \in BooleanFormats THEN Ok("z.boolean()", <<>>)
  ELSE IF pgType \in NumberFormats THEN Ok("z.number()", <<>>)
  ELSE IF pgType \in JsonFormats THEN Ok("jsonSchema", <<>>)
  ELSE IF pgType \in StringFormats THEN Ok("z.string()", <<>>)
  ELSE IF pgType \in DateFormats THEN Ok("z.string()", <<>>)
  ELSE Ok(enumFallback, << "Basic Zod Type: Unknown type " \o pgType >>)

(***************************************************************************)
(* The per-column refinements.                                             *)
(***************************************************************************)
IP_REGEX ==
  "^((((25[0-5]|(2[0-4]|1{0,1}[0-9]){0,1}[0-9])\\.){3,3}(25[0-5]|(2[0-4]|1{0,1}[0-9]){0,1}[0-9]))|((([0-9a-fA-F]{1,4}:){7,7}[0-9a-fA-F]{1,4}|([0-9a-fA-F]{1,4}:){1,7}:|([0-9a-fA-F]{1,4}:){1,6}:[0-9a-fA-F]{1,4}|([0-9a-fA-F]{1,4}:){1,5}(:[0-9a-fA-F]{1,4}){1,2}|([0-9a-fA-F]{1,4}:){1,4}(:[0-9a-fA-F]{1,4}){1,3}|([0-9a-fA-F]{1,4}:){1,3}(:[0-9a-fA-F]{1,4}){1,4}|([0-9a-fA-F]{1,4}:){1,2}(:[0-9a-fA-F]{1,4}){1,5}|[0-9a-fA-F]{1,4}:((:[0-9a-fA-F]{1,4}){1,6})|:((:[0-9a-fA-F]{1,4}){1,7}|:)|fe80:(:[0-9a-fA-F]{0,4}){0,4}%[0-9a-zA-Z]{1,}|::(ffff(:0{1,4}){0,1}:){0,1}((25[0-5]|(2[0-4]|1{0,1}[0-9]){0,1}[0-9])\\.){3,3}(25[0-5]|(2[0-4]|1{0,1}[0-9]){0,1}[0-9])|([0-9a-fA-F]{1,4}:){1,4}:((25[0-5]|(2[0-4]|1{0,1}[0-9]){0,1}[0-9])\\.){3,3}(25[0-5]|(2[0-4]|1{0,1}[0-9]){0,1}[0-9]))))\\/[0-9]{1,3}$"

\* Replaces " with \"
RECURSIVE escapeString(_)
escapeString(str) ==
  IF str = "" THEN ""
  ELSE (IF Head(str) = "\"" THEN "\\\"" ELSE Head(str)) \o escapeString(Tail(str))

\* JSON.stringify of a string: quoted, with " and \ escaped.
RECURSIVE jsonEscape(_)
jsonEscape(str) ==
  IF str = "" THEN ""
  ELSE (IF Head(str) \in {"\"", "\\"} THEN "\\" \o Head(str) ELSE Head(str))
       \o jsonEscape(Tail(str))

JSONstringify(str) == "\"" \o jsonEscape(str) \o "\""

\* values.map((value) => `"${value}"`).join(', ')
quotedList(values) ==
  concat(join([i \in DOMAIN values |-> "\"" \o values[i] \o "\""], ", "))

extractExtraZodMethods(column) ==
  (IF column.format = "uuid" THEN <<"uuid()">> ELSE <<>>)
  \o (IF column.format \in {"date", "time"} THEN <<"datetime()">> ELSE <<>>)
  \o (IF column.format \in {"timetz", "timestamp", "timestamptz", "timestamp with time zone"}
      THEN <<"datetime({ offset: true })">> ELSE <<>>)
  \o (IF column.data_type = "USER-DEFINED" /\ Len(column.enums) > 0
      THEN <<"enum([" \o quotedList(column.enums) \o "] as const)">> ELSE <<>>)
  \o (IF column.format = "inet" THEN <<"regex(/" \o IP_REGEX \o "/)">> ELSE <<>>)
  \o (IF column.comment \notin {Null, ""}
      THEN <<"describe(\"" \o escapeString(column.comment) \o "\")">> ELSE <<>>)

extractGeneralZodMethodsNullableOnly(column) ==
  (IF column.is_nullable THEN <<"nullable()">> ELSE <<>>)
  \o (IF column.is_nullable THEN <<"optional()">> ELSE <<>>)

extractGeneralZodMethods(column) ==
  (IF column.is_nullable THEN <<"nullable()">> ELSE <<>>)
  \o (IF column.is_nullable \/ column.is_identity \/ column.default_value # Null
      THEN <<"optional()">> ELSE <<>>)

joinWithLeading(arr, sep) ==
  IF Len(arr) = 0 THEN <<>> ELSE <<sep>> \o join(arr, sep)

uniqKeepAll(arr) == arr

\* [...new Set(arr)]: the first occurrence of each value, in order.
uniq(arr) ==
  LET first(i) == \A j \in 1..(i - 1) : arr[j] # arr[i]
      RECURSIVE keep(_)
      keep(i) == IF i > Len(arr) THEN <<>>
                 ELSE (IF first(i) THEN <<arr[i]>> ELSE <<>>) \o keep(i + 1)
  IN keep(1)

(***************************************************************************)
(* The column writers.  Each gives the text of the field's expression.     *)
(***************************************************************************)
writeRowColumn(column) ==
  LET extra == joinWithLeading(extractExtraZodMethods(column), ".")
  IN then(basicZodType(column.format, IF extra = <<>> THEN "z.string()" ELSE "z",
                       "z.unknown()"),
          LAMBDA basic :
            <<basic>> \o extra \o (IF column.is_nullable THEN <<".nullable()">> ELSE <<>>))

writeColumn(column) ==
  LET extra == joinWithLeading(extractExtraZodMethods(column), ".")
      general == joinWithLeading(extractGeneralZodMethods(column), ".")
  IN then(basicZodType(column.format, IF extra = <<>> THEN "z.string()" ELSE "z",
                       "z.unknown()"),
          LAMBDA basic : <<basic>> \o extra \o general)

\* The body of writeUpdateTable's map callback.
writeUpdateColumn(column) ==
  LET extra == joinWithLeading(extractExtraZodMethods(column), ".")
      general == joinWithLeading(
                   uniq(extractGeneralZodMethods(column) \o <<"optional()">>), ".")
  IN then(basicZodType(column.format, IF extra = <<>> THEN "z.string()" ELSE "z",
                       "z.unknown()"),
          LAMBDA basic : <<basic>> \o extra \o general)

writeReadFunction(func, tys) ==
  LET found == SelectSeq(tys, LAMBDA t : t.id = func.return_type_id)
  IN IF found # <<>>
     THEN then(basicZodType(found[1].format, "z.unknown()", "z.unknown()"),
               LAMBDA zodType : <<zodType>>)
     ELSE Ok(<<"unknown">>, <<>>)

(***************************************************************************)
(* The object writers.  An object's body is the sequence of its members    *)
(* [key, text] (the code joins them with ',\n'); Comma is the `,` the      *)
(* template itself writes after a joined list.  `cols` is                  *)
(* columnsByTableId[id]: <<>> when undefined, <<the array>> otherwise, and *)
(* a method call on undefined throws a TypeError.                          *)
(***************************************************************************)
Comma == [key |-> ",", text |-> <<>>]

member(key, r) == then(r, LAMBDA text : [key |-> key, text |-> text])

quoted(name) == "\"" \o name \o "\""

writeRowTable(cols, readFunctions, tys) ==
  IF cols = <<>> THEN Throw("TypeError", <<>>)
  ELSE then(inOrder(<<
              inOrder([i \in DOMAIN cols[1] |->
                member(quoted(cols[1][i].name), writeRowColumn(cols[1][i]))]),
              inOrder([i \in DOMAIN readFunctions |->
                member(quoted(readFunctions[i].name),
                       writeReadFunction(readFunctions[i], tys))]) >>),
            LAMBDA out : out[1] \o <<Comma>> \o out[2])

insertable(cols) == SelectSeq(cols, LAMBDA column : column.identity_generation # "ALWAYS")

writeInsertTableUnfiltered(cols) ==
  IF cols = <<>> THEN Throw("TypeError", <<>>)
  ELSE then(inOrder([i \in DOMAIN cols[1] |->
              member(quoted(cols[1][i].name), writeColumn(cols[1][i]))]),
            LAMBDA out : out \o <<Comma>>)

writeInsertTable(cols) ==
  IF cols = <<>> THEN Throw("TypeError", <<>>)
  ELSE then(inOrder([i \in DOMAIN insertable(cols[1]) |->
              member(quoted(insertable(cols[1])[i].name), writeColumn(insertable(cols[1])[i]))]),
            LAMBDA out : out \o <<Comma>>)

writeUpdateTable(cols) ==
  IF cols = <<>> THEN Throw("TypeError", <<>>)
  ELSE then(inOrder([i \in DOMAIN insertable(cols[1]) |->
              member(quoted(insertable(cols[1])[i].name),
                     writeUpdateColumn(insertable(cols[1])[i]))]),
            LAMBDA out : out \o <<Comma>>)

updatable(cols) == SelectSeq(cols, LAMBDA column : column.is_updatable)

writeView(cols) ==
  IF cols = <<>> THEN Throw("TypeError", <<>>)
  ELSE inOrder([i \in DOMAIN updatable(cols[1]) |->
         member(JSONstringify(updatable(cols[1])[i].name), writeColumn(updatable(cols[1])[i]))])

(***************************************************************************)
(* Functions.                                                              *)
(***************************************************************************)
writeFunctionArgUnstripped(arg, tys, arrTys) ==
  LET optional == IF arg.has_default THEN <<".optional()">> ELSE <<>>
      arr == SelectSeq(arrTys, LAMBDA t : t.id = arg.type_id)
      sca == SelectSeq(tys, LAMBDA t : t.id = arg.type_id)
  IN IF arr # <<>>
     THEN then(basicZodType(arr[1].name, "z.unknown()", "z.unknown()"),
               LAMBDA element : <<"z.array(" \o element \o ")">> \o optional)
     ELSE IF sca # <<>>
     THEN then(basicZodType(sca[1].format, "z.unknown()", "z.unknown()"),
               LAMBDA zodType : <<zodType>> \o optional)
     ELSE Ok(<<"z.unknown()">> \o optional,
             << "Function: Unknown type " \o ToString(arg.type_id) >>)

writeFunctionArg(arg, tys, arrTys) ==
  LET optional == IF arg.has_default THEN <<".optional()">> ELSE <<>>
      arr == SelectSeq(arrTys, LAMBDA t : t.id = arg.type_id)
      sca == SelectSeq(tys, LAMBDA t : t.id = arg.type_id)
  IN IF arr # <<>>
     THEN \* the name of an array type looks like `_int8`
          then(basicZodType(substring(arr[1].name, 1), "z.unknown()", "z.unknown()"),
               LAMBDA element : <<"z.array(" \o element \o ")">> \o optional)
     ELSE IF sca # <<>>
     THEN then(basicZodType(sca[1].format, "z.unknown()", "z.unknown()"),
               LAMBDA zodType : <<zodType>> \o optional)
     ELSE Ok(<<"z.unknown()">> \o optional,
             << "Function: Unknown type " \o ToString(arg.type_id) >>)

inArgsOf(func) == SelectSeq(func.args, LAMBDA a : a.mode = "in")

writeFunction(func, tys, arrTys) ==
  inOrder([i \in DOMAIN inArgsOf(func) |->
    member(JSONstringify(inArgsOf(func)[i].name),
           writeFunctionArg(inArgsOf(func)[i], tys, arrTys))])

\* The property names an object literal `{}` inherits from Object.prototype:
\* `acc[name] ??= []` leaves such a name's inherited value in place, and
\* `acc[name].push` is then not a function.
ObjectPrototypeKeys ==
  {"constructor", "hasOwnProperty", "isPrototypeOf", "propertyIsEnumerable",
   "toLocaleString", "toString", "valueOf", "__proto__", "__defineGetter__",
   "__defineSetter__", "__lookupGetter__", "__lookupSetter__"}

\* functions.reduce(...): the names in the order of their first occurrence
\* (none of the model's names is integer-like, so this is the order of
\* Object.entries) and each name's functions in the order of the array.
groupedNames(fns) == uniq([i \in DOMAIN fns |-> fns[i].name])

groupOf(fns, name) == SelectSeq(fns, LAMBDA f : f.name = name)

writeFunctionGroupMerged(rawFnName, group, tys, arrTys) ==
  then(inOrder([i \in DOMAIN group |-> writeFunction(group[i], tys, arrTys)]),
       LAMBDA branches :
         [key |-> JSONstringify(rawFnName), union |-> Len(uniq(branches)) # 1,
          branches |-> uniq(branches)])

writeFunctionGroup(rawFnName, group, tys, arrTys) ==
  then(inOrder([i \in DOMAIN group |-> writeFunction(group[i], tys, arrTys)]),
       LAMBDA branches :
         [key |-> JSONstringify(rawFnName), union |-> Len(group) # 1, branches |-> branches])

writeFunctions(fns, tys, arrTys) ==
  IF \E i \in DOMAIN fns : fns[i].name \in ObjectPrototypeKeys
  THEN Throw("TypeError", <<>>)
  ELSE inOrder([i \in DOMAIN groupedNames(fns) |->
         writeFunctionGroup(groupedNames(fns)[i], groupOf(fns, groupedNames(fns)[i]),
                            tys, arrTys)])

(***************************************************************************)
(* writeSchema and apply.                                                  *)
(***************************************************************************)
lookup(rec, key) == IF key \in DOMAIN rec THEN <<rec[key]>> ELSE <<>>

\* One element of availableTables.map(...).
writeTable(table, columnsByTableId, fns, tys) ==
  then(inOrder(<<
         writeRowTable(lookup(columnsByTableId, table.id),
                       SelectSeq(fns, LAMBDA fn : fn.argument_types = table.name), tys),
         writeInsertTable(lookup(columnsByTableId, table.id)),
         writeUpdateTable(lookup(columnsByTableId, table.id)) >>),
       LAMBDA out : [name |-> table.name, row |-> out[1], insert |-> out[2],
                     update |-> out[3]])

writeEnum(enumType) ==
  [name |-> enumType.name,
   text |-> "z.enum([" \o quotedList(enumType.enums) \o "] as const)"]

emittedEnums(tys, schemaName) ==
  SelectSeq(filterSchemaEnums(tys, schemaName), LAMBDA enumType : Len(enumType.enums) > 0)

writeSchema(schemaName, availableTables, columnsByTableId, fns, vws, tys, arrTys) ==
  then(inOrder(<<
         inOrder([i \in DOMAIN availableTables |->
                    writeTable(availableTables[i], columnsByTableId, fns, tys)]),
         Ok([i \in DOMAIN emittedEnums(tys, schemaName) |->
               writeEnum(emittedEnums(tys, schemaName)[i])], <<>>),
         writeFunctions(fns, tys, arrTys),
         inOrder([i \in DOMAIN vws |->
                    member(JSONstringify(vws[i].name),
                           writeView(lookup(columnsByTableId, vws[i].id)))]) >>),
       LAMBDA out : [tables |-> out[1], enums |-> out[2], functions |-> out[3],
                     views |-> out[4]])

\* prettier.format(output, {parser: 'typescript'}) throws a SyntaxError when
\* the text does not parse.  On the texts of this model that is the case
\* exactly when an object's body begins with the template's `,`.
parses(document) ==
  \A s \in DOMAIN document : \A t \in DOMAIN document[s].body.tables :
    /\ Head(document[s].body.tables[t].row) # Comma
    /\ Head(document[s].body.tables[t].insert) # Comma
    /\ Head(document[s].body.tables[t].update) # Comma

prettierFormat(r) ==
  IF r.err # "" THEN [kind |-> r.err, document |-> <<>>]
  ELSE IF ~parses(r.out) THEN [kind |-> "SyntaxError", document |-> <<>>]
  ELSE [kind |-> "document", document |-> r.out]

\* columns.sort(...).reduce(...): the groups of the sorted array by table_id.
groupByTableId(sorted) ==
  [id \in {sorted[i].table_id : i \in DOMAIN sorted} |->
     SelectSeq(sorted, LAMBDA c : c.table_id = id)]

reverseColumns(arr) == [i \in DOMAIN arr |-> arr[Len(arr) + 1 - i]]

\* columns.sort(({ name: a }, { name: b }) => a.localeCompare(b)), in place.
sortColumns(arr) == sortByName(arr)

\* The document's `${schemas.map(...)}` over the grouped columns.
writeSchemas(in, columnsByTableId) ==
  inOrder([i \in DOMAIN in.schemas |->
    then(writeSchema(in.schemas[i].name,
                     filterFromSchema(in.tables, in.schemas[i].name),
                     columnsByTableId,
                     filterSchemaFunctions(in.functions, in.schemas[i].name),
                     filterFromSchema(in.views \o in.materializedViews, in.schemas[i].name),
                     in.types, in.arrayTypes),
         LAMBDA body : [name |-> in.schemas[i].name, body |-> body])])

outcome(sorted, r) == [columns |-> sorted, log |-> r.log, returned |-> prettierFormat(r)]

applySorted(in, sorted) == outcome(sorted, writeSchemas(in, groupByTableId(sorted)))

\* apply: [columns: the input array after the call, returned: what the call
\* returned or threw, log: the console output].
apply(in) == applySorted(in, sortColumns(in.columns))

(***************************************************************************)
(* The input snapshots of the model.                                       *)
(***************************************************************************)
Schema(name) == [name |-> name]

Relation(id, schema, name) == [id |-> id, schema |-> schema, name |-> name]

Column(table_id, name, format, data_type, is_nullable, is_identity, identity_generation, default_value, enums, comment, is_updatable) ==
  [table_id |-> table_id, name |-> name, format |-> format, data_type |-> data_type,
   is_nullable |-> is_nullable, is_identity |-> is_identity,
   identity_generation |-> identity_generation, default_value |-> default_value,
   enums |-> enums, comment |-> comment, is_updatable |-> is_updatable]

Type(id, schema, name, format, enums) ==
  [id |-> id, schema |-> schema, name |-> name, format |-> format, enums |-> enums]

Arg(name, mode, type_id, has_default) ==
  [name |-> name, mode |-> mode, type_id |-> type_id, has_default |-> has_default]

Function(schema, name, args, argument_types, return_type_id) ==
  [schema |-> schema, name |-> name, args |-> args, argument_types |-> argument_types,
   return_type_id |-> return_type_id]

Users == Relation(1, "public", "users")
Accounts == Relation(2, "public", "accounts")
Log == Relation(2, "audit", "log")
ActiveUsers == Relation(3, "public", "active_users")
OrphanId == 9

\* Schemas, tables, views and materialized views that go together.
Topologies ==
  { [schemas |-> <<Schema("public")>>, tables |-> <<Users>>,
     views |-> <<>>, materializedViews |-> <<>>],
    [schemas |-> <<Schema("public")>>, tables |-> <<Users, Accounts>>,
     views |-> <<>>, materializedViews |-> <<>>],
    [schemas |-> <<Schema("public")>>, tables |-> <<Users>>,
     views |-> <<ActiveUsers>>, materializedViews |-> <<>>],
    [schemas |-> <<Schema("public"), Schema("audit")>>, tables |-> <<Users, Log>>,
     views |-> <<>>, materializedViews |-> <<>>],
    [schemas |-> <<Schema("public")>>, tables |-> <<>>,
     views |-> <<>>, materializedViews |-> <<ActiveUsers>>] }

MoodValues == <<"sad", "ok", "happy">>

ColumnPool ==
  { Column(1, "id", "uuid", "uuid", FALSE, TRUE, "ALWAYS", Null, <<>>, Null, TRUE),
    Column(1, "email", "text", "text", FALSE, FALSE, Null, Null, <<>>, Null, TRUE),
    Column(1, "Bio", "text", "text", TRUE, FALSE, Null, Null, <<>>, "short \"bio\"", TRUE),
    Column(1, "mood", "mood", "USER-DEFINED", FALSE, FALSE, Null, "'ok'::mood",
           MoodValues, Null, TRUE),
    Column(1, "caf\\u00e9", "text", "text", FALSE, FALSE, Null, Null, <<>>, Null, TRUE),
    Column(1, "cafe\\u0301", "int4", "integer", FALSE, FALSE, Null, Null, <<>>, Null, TRUE),
    Column(2, "id", "int8", "bigint", FALSE, TRUE, "ALWAYS", Null, <<>>, Null, TRUE),
    Column(2, "tags", "_text", "ARRAY", FALSE, FALSE, Null, "'{}'::text[]", <<>>, Null, TRUE),
    Column(3, "name", "text", "text", TRUE, FALSE, Null, Null, <<>>, Null, TRUE),
    Column(3, "geo", "geometry", "USER-DEFINED", TRUE, FALSE, Null, Null, <<>>, Null, FALSE),
    Column(OrphanId, "ghost", "text", "text", FALSE, FALSE, Null, Null, <<>>, Null, TRUE) }

\* Every single column over these field values, of the table or of the view.
ColumnFormats ==
  {"bool", "int4", "jsonb", "text", "uuid", "date", "timestamptz", "inet",
   "_text", "__int4", "_mood", "mood", "geometry"}

ColumnSpace ==
  { Column(k[1], "email", fmt, de[1], nul, ig[1], ig[2], dv, de[2], cm, k[2]) :
      k \in {<<1, TRUE>>, <<3, TRUE>>, <<3, FALSE>>},
      fmt \in ColumnFormats,
      de \in {<<"text", <<>> >>, <<"USER-DEFINED", <<>> >>, <<"USER-DEFINED", MoodValues>>},
      nul \in BOOLEAN,
      ig \in {<<FALSE, Null>>, <<TRUE, "BY DEFAULT">>, <<TRUE, "ALWAYS">>},
      dv \in {Null, "now()"},
      cm \in {Null, "a \"note\""} }

\* The scalar types and the array types (names beginning with _) the caller
\* hands over.
Types ==
  << Type(23, "pg_catalog", "int4", "int4", <<>>),
     Type(20, "pg_catalog", "int8", "int8", <<>>),
     Type(25, "pg_catalog", "text", "text", <<>>),
     Type(701, "pg_catalog", "float8", "float8", <<>>),
     Type(5001, "public", "mood", "mood", MoodValues),
     Type(5002, "public", "color", "color", <<"red", "green">>),
     Type(6001, "public", "geometry", "geometry", <<>>) >>

ArrayTypes ==
  << Type(1007, "pg_catalog", "_int4", "_int4", <<>>),
     Type(6002, "public", "_geometry", "_geometry", <<>>) >>

UnknownTypeId == 999
UsersRowTypeId == 7001
AbsentTypeId == 4242

FullName == Function("public", "full_name", <<Arg("", "in", UsersRowTypeId, FALSE)>>, "users", 25)
Ghost == Function("public", "ghost", <<Arg("", "in", UsersRowTypeId, FALSE)>>, "users", AbsentTypeId)

FunctionPool ==
  { Function("public", "area", <<Arg("r", "in", 701, FALSE)>>, "r double precision", 701),
    Function("public", "area", <<Arg("", "in", 23, FALSE), Arg("", "in", 23, FALSE)>>,
             "integer, integer", 23),
    Function("public", "f", <<Arg("a", "in", 23, FALSE)>>, "a integer", 23),
    Function("public", "f", <<Arg("a", "in", 20, FALSE)>>, "a bigint", 20),
    Function("public", "F", <<Arg("x", "in", 1007, TRUE), Arg("y", "out", 23, FALSE)>>,
             "x integer[]", 23),
    Function("public", "g", <<Arg("p", "in", UnknownTypeId, TRUE), Arg("q", "in", 6002, FALSE)>>,
             "p unknown, q geometry[]", 25),
    Function("public", "constructor", <<Arg("x", "in", 25, FALSE)>>, "x text", 25),
    Function("audit", "f", <<Arg("a", "in", 25, FALSE)>>, "a text", 25),
    Function("public", "geo", <<Arg("", "in", UsersRowTypeId, FALSE)>>, "users", 6001),
    FullName, Ghost }

\* The sequences of at most n different elements of S.
RECURSIVE listsOf(_, _)
listsOf(S, n) ==
  IF n = 0 THEN {<<>>}
  ELSE LET shorter == listsOf(S, n - 1)
           longest == {l \in shorter : Len(l) = n - 1}
       IN shorter \cup UNION {{Append(l, x) : x \in S \ {l[i] : i \in DOMAIN l}} :
                                l \in longest}

input == [schemas |-> schemas, tables |-> tables, views |-> views,
          materializedViews |-> materializedViews, columns |-> columns,
          functions |-> functions, types |-> types, arrayTypes |-> arrayTypes]

Init ==
  /\ types = Types
  /\ arrayTypes = ArrayTypes
  /\ calls = <<>>
  /\ \/ \* lists of columns
        /\ \E t \in Topologies :
             /\ schemas = t.schemas
             /\ tables = t.tables
             /\ views = t.views
             /\ materializedViews = t.materializedViews
        /\ columns \in listsOf(ColumnPool, MaxCols)
        /\ functions \in {<<>>, <<FullName, Ghost>>}
     \/ \* lists of functions
        /\ schemas \in {<<Schema("public")>>, <<Schema("public"), Schema("audit")>>}
        /\ tables = <<Users>>
        /\ views = <<>>
        /\ materializedViews = <<>>
        /\ columns = <<Column(1, "email", "text", "text", FALSE, FALSE, Null, Null, <<>>, Null, TRUE)>>
        /\ functions \in listsOf(FunctionPool, MaxFns)
     \/ \* one column of one table or of one view
        /\ schemas = <<Schema("public")>>
        /\ materializedViews = <<>>
        /\ functions = <<>>
        /\ \E c \in ColumnSpace :
             /\ columns = <<c>>
             /\ tables = IF c.table_id = 1 THEN <<Users>> ELSE <<>>
             /\ views = IF c.table_id = 3 THEN <<ActiveUsers>> ELSE <<>>

\* One call of apply on the caller's collections: it sorts `columns` in
\* place before anything can throw.
Apply ==
  /\ Len(calls) < MaxRuns
  /\ LET r == apply(input)
     IN /\ columns' = r.columns
        /\ calls' = Append(calls, [args |-> input, returned |-> r.returned, log |-> r.log])
  /\ UNCHANGED <<schemas, tables, views, materializedViews, functions, types, arrayTypes>>

Next == Apply

Spec == Init /\ [][Next]_vars

(***************************************************************************)
(* Properties of the calls of apply.                                       *)
(***************************************************************************)
completed(i) == calls[i].returned.kind = "document"

document(i) == calls[i].returned.document

\* The members of an object's body that are fields.
fields(object) == SelectSeq(object, LAMBDA m : m # Comma)

keys(object) == {object[i].key : i \in DOMAIN fields(object)} \ {Comma.key}

\* The row's fields that stand before the template's comma: its columns.
RECURSIVE beforeComma(_)
beforeComma(object) ==
  IF object = <<>> \/ Head(object) = Comma THEN <<>>
  ELSE <<Head(object)>> \o beforeComma(Tail(object))

\* How often a refinement occurs in a field's text.
occurrences(text, method) == Cardinality({i \in DOMAIN text : text[i] = method})

\* The tables the document of call i holds for input table `rel`.
emittedTables(i, rel) ==
  { document(i)[s].body.tables[t] :
      <<s, t>> \in { st \in (DOMAIN document(i)) \X (1..Len(calls[i].args.tables)) :
                       /\ st[2] \in DOMAIN document(i)[st[1]].body.tables
                       /\ document(i)[st[1]].name = rel.schema
                       /\ document(i)[st[1]].body.tables[st[2]].name = rel.name } }

listed(i, rel) == \E s \in DOMAIN calls[i].args.schemas : calls[i].args.schemas[s].name = rel.schema

elements(arr) == {arr[i] : i \in DOMAIN arr}

columnsOf(i, rel) == {c \in elements(calls[i].args.columns) : c.table_id = rel.id}

\* C1: in every document, every column of every table is a field of the
\* table's row object, and it is a field of the insert object and of the
\* update object exactly when its identity_generation is not "ALWAYS".
C1_IdentityExclusion ==
  \A i \in DOMAIN calls : completed(i) =>
    \A rel \in elements(calls[i].args.tables) : listed(i, rel) =>
      /\ emittedTables(i, rel) # {}
      /\ \A table \in emittedTables(i, rel) : \A c \in columnsOf(i, rel) :
           /\ quoted(c.name) \in keys(beforeComma(table.row))
           /\ quoted(c.name) \in keys(table.insert) <=> c.identity_generation # "ALWAYS"
           /\ quoted(c.name) \in keys(table.update) <=> c.identity_generation # "ALWAYS"

\* A document with a table that has an identity-ALWAYS column, which its
\* row holds, beside a column that its insert and update hold.
C1_Witness ==
  \E i \in DOMAIN calls : completed(i) /\
    \E rel \in elements(calls[i].args.tables) : \E table \in emittedTables(i, rel) :
      \E c, d \in columnsOf(i, rel) :
        /\ c.identity_generation = "ALWAYS"
        /\ quoted(c.name) \in keys(beforeComma(table.row))
        /\ d.identity_generation # "ALWAYS"
        /\ quoted(d.name) \in keys(table.insert) \cap keys(table.update)

\* C2: every field of every update object carries the optional marker
\* exactly once, whatever is_nullable, is_identity and default_value are.
C2_UpdateOptionalOnce ==
  \A i \in DOMAIN calls : completed(i) =>
    \A rel \in elements(calls[i].args.tables) : \A table \in emittedTables(i, rel) :
      /\ \A c \in columnsOf(i, rel) :
           c.identity_generation # "ALWAYS" => quoted(c.name) \in keys(table.update)
      /\ \A m \in DOMAIN fields(table.update) :
           occurrences(fields(table.update)[m].text, "optional()") = 1

\* An update object with a field of a column that is not nullable, not
\* identity and without default, and a field of a nullable column, whose
\* general refinements already hold the optional marker.
C2_Witness ==
  \E i \in DOMAIN calls : completed(i) /\
    \E rel \in elements(calls[i].args.tables) : \E table \in emittedTables(i, rel) :
      \E c, d \in columnsOf(i, rel) :
        /\ ~c.is_nullable /\ ~c.is_identity /\ c.default_value = Null
        /\ quoted(c.name) \in keys(table.update)
        /\ d.is_nullable /\ "optional()" \in elements(extractGeneralZodMethods(d))
        /\ quoted(d.name) \in keys(table.update)

resolved(i, c) ==
  \E rel \in elements(calls[i].args.tables) \cup elements(calls[i].args.views)
             \cup elements(calls[i].args.materializedViews) : rel.id = c.table_id

\* C3: when the input holds a column whose table_id matches no table, view
\* or materialized view, apply aborts and returns no document.
C3_OrphanColumnAborts ==
  \A i \in DOMAIN calls :
    (\E c \in elements(calls[i].args.columns) : ~resolved(i, c)) => ~completed(i)

\* C4: when every column's table_id resolves to a table or view of the
\* input, apply completes and returns a document.
C4_ResolvedTopologyCompletes ==
  \A i \in DOMAIN calls :
    (\A c \in elements(calls[i].args.columns) : resolved(i, c)) => completed(i)

\* C5: a second call of apply, on the collections the first call was given,
\* returns what the first call returned.
C5_Idempotent ==
  \A i, j \in DOMAIN calls : calls[i].returned = calls[j].returned

\* Two calls that returned a document, the first of which was given the
\* columns in another order than it left them in.
C5_Witness ==
  /\ Len(calls) >= 2
  /\ completed(1) /\ completed(2)
  /\ calls[1].args.columns # calls[2].args.columns

permutations(arr) ==
  { [i \in DOMAIN arr |-> arr[f[i]]] :
      f \in {g \in [DOMAIN arr -> DOMAIN arr] : \A a, b \in DOMAIN arr : g[a] = g[b] => a = b} }

distinctNames(arr) ==
  \A a, b \in DOMAIN arr :
    (arr[a].table_id = arr[b].table_id /\ arr[a].name = arr[b].name) => a = b

\* C6: for every permutation of the input column list (column names
\* distinct within a table) apply returns the same document: the fields of
\* every object stand in the same order.
C6_PermutationIndependent ==
  \A i \in DOMAIN calls : (completed(i) /\ distinctNames(calls[i].args.columns)) =>
    \A p \in permutations(calls[i].args.columns) :
      apply([calls[i].args EXCEPT !.columns = p]).returned = calls[i].returned

\* The admission rule: every in, inout or variadic argument is named, or
\* there is exactly one such argument.
admitted(func) ==
  LET inputs == {a \in DOMAIN func.args : func.args[a].mode \in {"in", "inout", "variadic"}}
  IN Cardinality(inputs) = 1 \/ \A a \in inputs : func.args[a].name # ""

\* The admitted overloads of `name` in schema s of call i, in input order.
overloads(i, s, name) ==
  SelectSeq(calls[i].args.functions, LAMBDA func :
    func.schema = calls[i].args.schemas[s].name /\ func.name = name /\ admitted(func))

functionEntries(i, s, name) ==
  {e \in DOMAIN document(i)[s].body.functions :
     document(i)[s].body.functions[e].key = JSONstringify(name)}

RECURSIVE stripSigils(_)
stripSigils(pgType) ==
  IF startsWith(pgType, "_") THEN stripSigils(substring(pgType, 1)) ELSE pgType

recognised(pgType) ==
  pgType \in BooleanFormats \cup NumberFormats \cup JsonFormats \cup StringFormats
             \cup DateFormats

\* A diagnostic of call i names the type.
reported(i, type) ==
  \E m \in DOMAIN calls[i].log :
    calls[i].log[m] \in {"Basic Zod Type: Unknown type " \o type,
                         "Function: Unknown type " \o type}

relations(i) ==
  {rel \in elements(calls[i].args.tables) \cup elements(calls[i].args.views)
             \cup elements(calls[i].args.materializedViews) : listed(i, rel)}

emittedFunctions(i) ==
  {func \in elements(calls[i].args.functions) :
     admitted(func) /\ \E s \in DOMAIN calls[i].args.schemas :
                         calls[i].args.schemas[s].name = func.schema}

typesWithId(tys, id) == {t \in elements(tys) : t.id = id}

\* C8: every fall-back to a placeholder is reported.  In a call that
\* completed, a diagnostic names the type of every written column with an
\* unrecognised format, of every `in` argument whose type is in neither
\* type set or has an unrecognised element or format name, and of every
\* computed field whose return type is absent or of unrecognised format.
C8_EveryUnknownTypeReported ==
  \A i \in DOMAIN calls : completed(i) =>
    /\ \A rel \in relations(i) : \A c \in columnsOf(i, rel) :
         (~recognised(stripSigils(c.format))
            /\ (rel \in elements(calls[i].args.tables) \/ c.is_updatable))
         => reported(i, stripSigils(c.format))
    /\ \A func \in emittedFunctions(i) : \A a \in DOMAIN func.args :
         func.args[a].mode = "in" =>
           LET arr == typesWithId(calls[i].args.arrayTypes, func.args[a].type_id)
               sca == typesWithId(calls[i].args.types, func.args[a].type_id)
           IN IF arr # {}
              THEN \A t \in arr : ~recognised(stripSigils(substring(t.name, 1)))
                                    => reported(i, stripSigils(substring(t.name, 1)))
              ELSE IF sca # {}
              THEN \A t \in sca : ~recognised(stripSigils(t.format))
                                    => reported(i, stripSigils(t.format))
              ELSE reported(i, ToString(func.args[a].type_id))
    /\ \A func \in emittedFunctions(i) : \A rel \in elements(calls[i].args.tables) :
         (listed(i, rel) /\ rel.schema = func.schema /\ func.argument_types = rel.name) =>
           LET ret == typesWithId(calls[i].args.types, func.return_type_id)
           IN IF ret # {}
              THEN \A t \in ret : ~recognised(stripSigils(t.format))
                                    => reported(i, stripSigils(t.format))
              ELSE reported(i, ToString(func.return_type_id))

\* The caller's collections after call i.
after(i) == IF i < Len(calls) THEN calls[i + 1].args ELSE input

\* C9: after apply has returned, every input collection holds the same
\* elements in the same order as before the call.
C9_InputsUnchanged ==
  \A i \in DOMAIN calls : completed(i) => after(i) = calls[i].args

\* C10: a column format that begins with the sigil maps to the array
\* constructor around the mapping of the remainder when the remainder is a
\* recognised primitive, and to hardFallback (z.unknown(), the default no
\* caller overrides) when the remainder matches no primitive category.
C10_ArrayMapping ==
  \A i \in DOMAIN calls : completed(i) =>
    \A rel \in elements(calls[i].args.tables) : \A table \in emittedTables(i, rel) :
      \A c \in columnsOf(i, rel) : \A m \in DOMAIN beforeComma(table.row) :
        (startsWith(c.format, "_") /\ table.row[m].key = quoted(c.name)) =>
          LET remainder == substring(c.format, 1)
          IN IF recognised(remainder)
             THEN table.row[m].text[1] =
                    "z.array(" \o basicZodType(remainder, "z.unknown()", "z.unknown()").out \o ")"
             ELSE startsWith(remainder, "_") \/ table.row[m].text[1] = "z.unknown()"

\* The refinements of a field's expression: what stands after the type,
\* without the dots.
refinements(text) == [k \in 1..((Len(text) - 1) \div 2) |-> text[2 * k + 1]]

PresenceMarkers == {"nullable()", "optional()"}

\* The expressions of the fields of `object` that have the key.
fieldTexts(object, key) == {object[m].text : m \in {n \in DOMAIN object : object[n].key = key}}

\* The view objects the document of call i holds for input view `rel`.
emittedViews(i, rel) ==
  { document(i)[s].body.views[v].text :
      <<s, v>> \in { sv \in (DOMAIN document(i)) \X
                               (1..(Len(calls[i].args.views) + Len(calls[i].args.materializedViews))) :
                       /\ sv[2] \in DOMAIN document(i)[sv[1]].body.views
                       /\ document(i)[sv[1]].name = rel.schema
                       /\ document(i)[sv[1]].body.views[sv[2]].key = JSONstringify(rel.name) } }

\* The refinement list is the type-level refinements followed by the
\* presence-level ones: nullable once iff is_nullable, optional once iff
\* is_nullable, is_identity or a default, nullable before optional.
presenceLast(c, text) ==
  LET rs == refinements(text)
      general == {k \in DOMAIN rs : rs[k] \in PresenceMarkers}
  IN /\ Len(text) = 2 * Len(rs) + 1
     /\ \A k \in DOMAIN rs : text[2 * k] = "."
     /\ occurrences(rs, "nullable()") = IF c.is_nullable THEN 1 ELSE 0
     /\ occurrences(rs, "optional()") =
          IF c.is_nullable \/ c.is_identity \/ c.default_value # Null THEN 1 ELSE 0
     /\ \A k \in general : \A j \in DOMAIN rs \ general : j < k
     /\ \A k, j \in general : (rs[k] = "nullable()" /\ rs[j] = "optional()") => k < j
     /\ SubSeq(rs, 1, Len(rs) - Cardinality(general)) = extractExtraZodMethods(c)

\* C11: in every document, the expression of every field of an insert
\* object and of a view object is the type, the type-level refinements and
\* then the presence-level refinements: the nullable marker iff is_nullable,
\* the optional marker iff is_nullable or is_identity or default_value is
\* not null, each at most once, nullable before optional.
C11_PresenceRefinements ==
  \A i \in DOMAIN calls : completed(i) =>
    /\ \A rel \in elements(calls[i].args.tables) : \A table \in emittedTables(i, rel) :
         \A c \in columnsOf(i, rel) : c.identity_generation # "ALWAYS" =>
           /\ fieldTexts(table.insert, quoted(c.name)) # {}
           /\ \A text \in fieldTexts(table.insert, quoted(c.name)) : presenceLast(c, text)
    /\ \A rel \in elements(calls[i].args.views) \cup elements(calls[i].args.materializedViews) :
         \A view \in emittedViews(i, rel) :
           \A c \in columnsOf(i, rel) : c.is_updatable =>
             /\ fieldTexts(view, JSONstringify(c.name)) # {}
             /\ \A text \in fieldTexts(view, JSONstringify(c.name)) : presenceLast(c, text)

\* A document with an insert field of a column that is identity with
\* neither null nor default (optional alone, after a type-level
\* refinement).
C11_Witness ==
  \E i \in DOMAIN calls : completed(i) /\
    \E rel \in elements(calls[i].args.tables) : \E table \in emittedTables(i, rel) :
      \E c \in columnsOf(i, rel) :
        /\ c.is_identity /\ ~c.is_nullable /\ c.default_value = Null
        /\ extractExtraZodMethods(c) # <<>>
        /\ \E text \in fieldTexts(table.insert, quoted(c.name)) :
             text[Len(text)] = "optional()" /\ occurrences(text, "nullable()") = 0

\* A document with a view field of a nullable column (nullable, then
\* optional).
C11_ViewWitness ==
  \E i \in DOMAIN calls : completed(i) /\
    \E rel \in elements(calls[i].args.views) \cup elements(calls[i].args.materializedViews) :
      \E view \in emittedViews(i, rel) : \E c \in columnsOf(i, rel) :
        /\ c.is_nullable
        /\ \E text \in fieldTexts(view, JSONstringify(c.name)) :
             /\ Len(text) >= 5
             /\ text[Len(text) - 2] = "nullable()" /\ text[Len(text)] = "optional()"

\* The mapping of a type name where no enum constraint can follow.
mapping(pgType) == basicZodType(pgType, "z.unknown()", "z.unknown()").out

\* The type an argument resolves to: by the array types first, then by the
\* scalar types, else the unknown placeholder.
resolvesTo(i, arg, type) ==
  LET arr == typesWithId(calls[i].args.arrayTypes, arg.type_id)
      sca == typesWithId(calls[i].args.types, arg.type_id)
  IN IF arr # {} THEN \E t \in arr : type = "z.array(" \o mapping(substring(t.name, 1)) \o ")"
     ELSE IF sca # {} THEN \E t \in sca : type = mapping(t.format)
     ELSE type = "z.unknown()"

C12_ScalarWitness ==
  \E i \in DOMAIN calls : completed(i) /\
    \E s \in DOMAIN document(i) : \E e \in DOMAIN document(i)[s].body.functions :
      \E func \in emittedFunctions(i) :
        /\ document(i)[s].body.functions[e].key = JSONstringify(func.name)
        /\ inArgsOf(func) # <<>>
        /\ typesWithId(calls[i].args.types, inArgsOf(func)[1].type_id) # {}
        /\ document(i)[s].body.functions[e].branches[1][1].text = <<"z.number()">>

\* An expression that starts with a complete type: anything but the bare
\* namespace, or the bare namespace with the enum constraint right after it.
completeType(text) ==
  /\ text # <<>>
  /\ text[1] = "z" => (Len(text) >= 3 /\ text[2] = "." /\ startsWith(text[3], "enum("))

\* C13: in every document, the expression of every field of every row,
\* insert, update and view object starts with a complete type: never the
\* bare namespace followed only by refinements that are not a type.
C13_CompleteType ==
  \A i \in DOMAIN calls : completed(i) =>
    /\ \A rel \in elements(calls[i].args.tables) : \A table \in emittedTables(i, rel) :
         \A c \in columnsOf(i, rel) :
           \A text \in fieldTexts(beforeComma(table.row), quoted(c.name))
                        \cup fieldTexts(table.insert, quoted(c.name))
                        \cup fieldTexts(table.update, quoted(c.name)) : completeType(text)
    /\ \A rel \in elements(calls[i].args.views) \cup elements(calls[i].args.materializedViews) :
         \A view \in emittedViews(i, rel) : \A c \in columnsOf(i, rel) :
           \A text \in fieldTexts(view, JSONstringify(c.name)) : completeType(text)

====
